---------------------------- MODULE Spec2Model ----------------------------
(***************************************************************************)
(* Model of newton_raphson (src/metodo_newton_raphson.py, lines 21-76).    *)
(*                                                                         *)
(* One behaviour is one call newton_raphson(f_expr, df_expr, x0, tol,      *)
(* max_iter).  The callables are the ones main() builds (lines 191-197):   *)
(* a polynomial f and its symbolic derivative.  Numbers are exact          *)
(* rationals [n, d] in lowest terms with d > 0, every operation of the     *)
(* loop (subtraction, division, abs, <) being computed on them; rounding   *)
(* of the binary floats is not modelled.  The arithmetic is written as     *)
(* functions so that arguments are evaluated once.                         *)
(***************************************************************************)
EXTENDS Integers, Sequences, FiniteSets, TLC

(***************************************************************************)
(* Exact rational arithmetic                                               *)
(***************************************************************************)
IAbs(a) == IF a < 0 THEN -a ELSE a

\* Euclid's algorithm on naturals
Euclid[a \in Nat, b \in Nat] == IF b = 0 THEN a ELSE Euclid[b, a % b]

GCD(a, b) == Euclid[a, b]

\* the rational n/d (d # 0) in lowest terms with a positive denominator
Lowest[n \in Int, d \in Int] ==
    LET g == GCD(IAbs(n), IAbs(d))
        s == IF d < 0 THEN -1 ELSE 1
    IN  [n |-> s * (n \div g), d |-> s * (d \div g)]

Rat(n, d) == Lowest[n, d]

Rats == [n : Int, d : Int]

Int2Rat(k) == [n |-> k, d |-> 1]

Zero == Int2Rat(0)

Neg(a) == [n |-> -a.n, d |-> a.d]

Sum[a \in Rats, b \in Rats] ==
    LET g == GCD(a.d, b.d)
        l == (a.d \div g) * b.d
    IN  Rat(a.n * (l \div a.d) + b.n * (l \div b.d), l)

\* a + b
Add(a, b) == Sum[a, b]

\* a - b
Sub(a, b) == Sum[a, Neg(b)]

Product[a \in Rats, b \in Rats] ==
    LET g1 == GCD(IAbs(a.n), b.d)
        g2 == GCD(IAbs(b.n), a.d)
    IN  Rat((a.n \div g1) * (b.n \div g2), (a.d \div g2) * (b.d \div g1))

\* a * b
Mul(a, b) == Product[a, b]

Quotient[a \in Rats, b \in Rats] ==
    Mul(a, IF b.n > 0 THEN [n |-> b.d, d |-> b.n] ELSE [n |-> -b.d, d |-> -b.n])

\* a / b for b # 0 (Python raises ZeroDivisionError for b = 0: see Step)
Div(a, b) == Quotient[a, b]

\* abs(a)
Abs(a) == [n |-> IAbs(a.n), d |-> a.d]

Smaller[a \in Rats, b \in Rats] ==
    LET g == GCD(a.d, b.d)
    IN  a.n * (b.d \div g) < b.n * (a.d \div g)

\* a < b, both sides brought to the common denominator lcm(a.d, b.d)
Less(a, b) == Smaller[a, b]

\* a < 10^(-e) for a >= 0, that is a.n * 10^e < a.d, computed without
\* forming 10^e:  m * 10 < d  <=>  m < ceil(d / 10)
RECURSIVE LessPow10(_, _, _)
LessPow10(m, e, d) ==
    IF e = 0 THEN m < d ELSE LessPow10(m, e - 1, (d + 9) \div 10)


(***************************************************************************)
(* The callables: a polynomial is the sequence of its coefficients,        *)
(* constant term first                                                      *)
(***************************************************************************)
RECURSIVE Horner(_, _, _, _)
Horner(c, k, q, acc) ==
    IF k = 0 THEN acc ELSE Horner(c, k - 1, q, Add(Mul(acc, q), c[k]))

\* the value at q of the lambdified expression with coefficients c
PolyEval(c, q) == Horner(c, Len(c), q, Zero)

\* diff(f_sym, x): the coefficients of the derivative
PolyDiff(c) == [k \in 1 .. (Len(c) - 1) |-> Mul(Int2Rat(k), c[k + 1])]

\* x**2 - 4
FSquareMinus4 == <<Int2Rat(-4), Zero, Int2Rat(1)>>

\* x**2 + 1
FSquarePlus1 == <<Int2Rat(1), Zero, Int2Rat(1)>>

\* x**2
FSquare == <<Zero, Zero, Int2Rat(1)>>

\* (x - 3)/100
FShallowLine == <<Rat(-3, 100), Rat(1, 100)>>

\* x/1000000000
FTinySlope == <<Zero, Rat(1, 1000000000)>>

\* the constant 1
FOne == <<Int2Rat(1)>>

\* the expressions entered at "Ingrese la funcion f(x)"
Funcs == {FSquareMinus4, FSquarePlus1, FSquare, FShallowLine, FTinySlope, FOne}

\* the values entered at "Ingrese el valor inicial (x0)"
X0s == {Int2Rat(0), Int2Rat(1)}

\* tol=1e-6, the default of the signature, also set by main for 's'
TolDefault == Rat(1, 1000000)

\* the tolerances: the default and the ones entered at "Ingrese la tolerancia"
Tols == {Zero, TolDefault, Rat(1, 10), Rat(1, 2)}

\* largest max_iter explored
MaxIterBound == 3

\* int(input(...)) accepts any integer, negative ones included
MaxIters == (-1) .. MaxIterBound

\* 1e-10 = 10^(-DerivEpsExp), the threshold on abs(df_x)
DerivEpsExp == 10

MsgDerivada == "Derivada cercana a cero. El metodo puede diverger."

MsgMaxIter == "Se alcanzo el numero maximo de iteraciones sin convergencia."

\* a local variable not yet assigned
Unbound == [n |-> 0, d |-> 0]

(***************************************************************************)
(* State of one call                                                       *)
(***************************************************************************)
VARIABLES
    f_expr,       \* parameter: coefficients of f
    df_expr,      \* parameter: coefficients of the derivative
    x0,           \* parameter
    tol,          \* parameter
    max_iter,     \* parameter
    x,            \* local x
    iteraciones,  \* local list of tuples (i+1, x, f_x, error)
    i,            \* loop variable of range(max_iter); -1 before the first pass
    f_x,          \* local f_x
    df_x,         \* local df_x
    error,        \* local error
    pc,           \* position: "for", "eval", "guard", "check", "done", "raised"
    ret,          \* <<>> while running, then the returned tuple
    via,          \* which return statement ended the call
    console,      \* what the call has printed
    evals         \* number of calls of f_expr and df_expr made so far

vars == <<f_expr, df_expr, x0, tol, max_iter, x, iteraciones, i, f_x, df_x,
          error, pc, ret, via, console, evals>>

params == <<f_expr, df_expr, x0, tol, max_iter>>

(***************************************************************************)
(* The statements of newton_raphson                                        *)
(***************************************************************************)
\* variant: the loop runs one pass too many (range(max_iter + 1))
RangeHasNextInclusive(j, n) == j + 1 <= n

\* for i in range(max_iter): is there a next value after i
RangeHasNext(j, n) == j + 1 < n

\* variant: the guard on the derivative is missing
DegenerateNever(dfx) == FALSE

\* abs(df_x) < 1e-10
Degenerate(dfx) == LessPow10(Abs(dfx).n, DerivEpsExp, dfx.d)

\* x_next = x - f_x / df_x
NewtonStep(xv, fx, dfx) == Sub(xv, Div(fx, dfx))

\* error = abs(x_next - x)
StepError(xn, xv) == Abs(Sub(xn, xv))

\* variant: the record carries the 0-based loop variable
RecordZeroBased(j, xv, fx, err) == <<j, xv, fx, err>>

\* the tuple appended to iteraciones
Record(j, xv, fx, err) == <<j + 1, xv, fx, err>>

\* variant: error <= tol
ConvergesLe(err, t) == ~Less(t, err)

\* variant: the comparison is turned around (error > tol)
ConvergesInverted(err, t) == Less(t, err)

\* error < tol
Converges(err, t) == Less(err, t)

\* variant: the message is not printed
ConsoleSilent(c, msg) == c

\* print("\n" + msg)
ConsoleWrite(c, msg) == Append(c, msg)

\* return x, iteraciones, convergencia
Return(xv, its, flag) == <<xv, its, flag>>

Init ==
    /\ f_expr \in Funcs
    /\ df_expr = PolyDiff(f_expr)
    /\ x0 \in X0s
    /\ tol \in Tols
    /\ max_iter \in MaxIters
    /\ x = x0
    /\ iteraciones = <<>>
    /\ i = -1
    /\ f_x = Unbound
    /\ df_x = Unbound
    /\ error = Unbound
    /\ pc = "for"
    /\ ret = <<>>
    /\ via = "none"
    /\ console = <<>>
    /\ evals = 0

\* line 50: the loop takes its next value
LoopHead ==
    /\ pc = "for"
    /\ RangeHasNext(i, max_iter)
    /\ i' = i + 1
    /\ pc' = "eval"
    /\ UNCHANGED <<params, x, iteraciones, f_x, df_x, error, ret, via,
                   console, evals>>

\* lines 51-52
Eval ==
    /\ pc = "eval"
    /\ f_x' = PolyEval(f_expr, x)
    /\ df_x' = PolyEval(df_expr, x)
    /\ evals' = evals + 2
    /\ pc' = "guard"
    /\ UNCHANGED <<params, x, iteraciones, i, error, ret, via, console>>

\* lines 55-57: the derivative is close to zero
Abort ==
    /\ pc = "guard"
    /\ Degenerate(df_x)
    /\ console' = ConsoleWrite(console, MsgDerivada)
    /\ ret' = Return(x, iteraciones, FALSE)
    /\ via' = "degenerate"
    /\ pc' = "done"
    /\ UNCHANGED <<params, x, iteraciones, i, f_x, df_x, error, evals>>

\* lines 60-69; the division of line 60 raises ZeroDivisionError for df_x = 0
Step ==
    /\ pc = "guard"
    /\ ~Degenerate(df_x)
    /\ IF df_x.n = 0
       THEN /\ pc' = "raised"
            /\ UNCHANGED <<x, iteraciones, error>>
       ELSE LET x_next == NewtonStep(x, f_x, df_x)
                err == StepError(x_next, x)
            IN  /\ error' = err
                /\ iteraciones' = Append(iteraciones, Record(i, x, f_x, err))
                /\ x' = x_next
                /\ pc' = "check"
    /\ UNCHANGED <<params, i, f_x, df_x, ret, via, console, evals>>

\* lines 72-73
Converged ==
    /\ pc = "check"
    /\ Converges(error, tol)
    /\ ret' = Return(x, iteraciones, TRUE)
    /\ via' = "converged"
    /\ pc' = "done"
    /\ UNCHANGED <<params, x, iteraciones, i, f_x, df_x, error, console, evals>>

\* line 72 false: back to the head of the loop
Continue ==
    /\ pc = "check"
    /\ ~Converges(error, tol)
    /\ pc' = "for"
    /\ UNCHANGED <<params, x, iteraciones, i, f_x, df_x, error, ret, via,
                   console, evals>>

\* lines 75-76: range(max_iter) is exhausted
Exhausted ==
    /\ pc = "for"
    /\ ~RangeHasNext(i, max_iter)
    /\ console' = ConsoleWrite(console, MsgMaxIter)
    /\ ret' = Return(x, iteraciones, FALSE)
    /\ via' = "exhausted"
    /\ pc' = "done"
    /\ UNCHANGED <<params, x, iteraciones, i, f_x, df_x, error, evals>>

Next ==
    \/ LoopHead
    \/ Eval
    \/ Abort
    \/ Step
    \/ Converged
    \/ Continue
    \/ Exhausted

Spec == Init /\ [][Next]_vars

\* the interpreter runs the call to its end: no statement waits on anything
FairSpec == Spec /\ WF_vars(Next)


(***************************************************************************)
(* Vocabulary of the properties                                            *)
(***************************************************************************)
Returned == pc = "done"

Root == ret[1]

Trace == ret[2]

Flag == ret[3]

Max0(n) == IF n < 0 THEN 0 ELSE n

\* number of loop passes started so far
Passes == i + 1

\* |q| < 1e-10, written out from the property's own words
BelowThreshold(q) == LessPow10(IAbs(q.n), DerivEpsExp, q.d)

F(q) == PolyEval(f_expr, q)

DF(q) == PolyEval(df_expr, q)

\* the degenerate-derivative abort ended the call
AbortFired == via = "degenerate" /\ BelowThreshold(DF(Root))

\* x_1 = x0, x_{k+1} = x_k - f(x_k)/df(x_k)
RECURSIVE XSeq(_)
XSeq(k) ==
    IF k = 1 THEN x0
    ELSE LET p == XSeq(k - 1) IN Sub(p, Div(F(p), DF(p)))

(***************************************************************************)
(* C1: when the call returns the flag true, the trace is non-empty and the *)
(* error field of its last record is strictly less than tol.               *)
(***************************************************************************)
C1_ConvergedLastErrorBelowTol ==
    (Returned /\ Flag) =>
        /\ Len(Trace) > 0
        /\ Less(Trace[Len(Trace)][4], tol)

C1_Witness == Returned /\ Flag /\ Len(Trace) >= 2

(***************************************************************************)
(* C2: for max_iter >= 0 the trace never holds more than max_iter records, *)
(* neither while the loop runs nor in the returned result.                 *)
(***************************************************************************)
C2_TraceAtMostMaxIter ==
    max_iter >= 0 =>
        /\ Len(iteraciones) <= max_iter
        /\ Returned => Len(Trace) <= max_iter

C2_Witness == Returned /\ max_iter >= 2 /\ Len(Trace) = max_iter

(***************************************************************************)
(* C3 as stated: a call that returns the flag false either ended through   *)
(* the degenerate-derivative abort or returns a trace of exactly max_iter  *)
(* records, and an exhausted loop returns max_iter records.                *)
(***************************************************************************)
C3_Original ==
    (Returned /\ ~Flag) =>
        /\ AbortFired \/ Len(Trace) = max_iter
        /\ via = "exhausted" => Len(Trace) = max_iter

(***************************************************************************)
(* C3 amended: a call that returns the flag false either ended through the *)
(* degenerate-derivative abort or returns a trace of exactly               *)
(* max(0, max_iter) records; an exhausted loop returns max(0, max_iter)    *)
(* records, none of them with an error below tol.                          *)
(***************************************************************************)
C3_FalseIsAbortOrFullTrace ==
    (Returned /\ ~Flag) =>
        /\ AbortFired \/ Len(Trace) = Max0(max_iter)
        /\ via = "exhausted" =>
            /\ Len(Trace) = Max0(max_iter)
            /\ \A k \in 1 .. Len(Trace) : ~Less(Trace[k][4], tol)

C3_Witness ==
    Returned /\ ~Flag /\ via = "exhausted" /\ max_iter >= 2
        /\ Len(Trace) = max_iter

(***************************************************************************)
(* C4: when |df(x)| < 1e-10 at the guard of a pass, the call returns at    *)
(* once with the flag false, the current x as root and the records of the  *)
(* earlier passes, adding none; when |df(x0)| < 1e-10 the returned trace   *)
(* is empty and the root is x0.                                            *)
(***************************************************************************)
C4_AbortReturnsPartialTrace ==
    /\ [](Returned /\ BelowThreshold(DF(x0)) => ret = <<x0, <<>>, FALSE>>)
    /\ [][(pc = "guard" /\ BelowThreshold(DF(x))) =>
            /\ pc' = "done"
            /\ ret' = <<x, iteraciones, FALSE>>
            /\ Len(iteraciones) = Passes - 1
            /\ iteraciones' = iteraciones
            /\ x' = x]_vars

C4_Witness ==
    Returned /\ via = "degenerate" /\ Len(Trace) = 1 /\ ~Flag /\ Root = x

ReturnsResult ==
    /\ pc # "raised"
    /\ ~Returned => (via = "none" /\ ret = <<>>)
    /\ Returned =>
        /\ via \in {"converged", "degenerate", "exhausted"}
        /\ ret = <<x, iteraciones, via = "converged">>

EndsOnce ==
    /\ (pc # "done" /\ pc' = "done") =>
            (via = "none" /\ via' \in {"converged", "degenerate", "exhausted"})
    /\ via # "none" => (via' = via /\ ret' = ret /\ pc' = "done")

(***************************************************************************)
(* C6 as stated: every call eventually terminates, after at most max_iter  *)
(* loop passes, through exactly one of the transitions converged,          *)
(* derivative-degenerate, iteration-exhausted, returning a result and      *)
(* never raising.                                                          *)
(***************************************************************************)
C6_Original ==
    /\ <>Returned
    /\ [](ReturnsResult /\ (Returned => Passes <= max_iter))
    /\ [][EndsOnce]_vars

(***************************************************************************)
(* C6 amended: every call eventually terminates, after at most             *)
(* max(0, max_iter) loop passes, through exactly one of the transitions    *)
(* converged, derivative-degenerate, iteration-exhausted, returning a      *)
(* result and never raising.                                               *)
(***************************************************************************)
C6_TerminatesByReturning ==
    /\ <>Returned
    /\ [](ReturnsResult /\ Passes <= Max0(max_iter))
    /\ [][EndsOnce]_vars

C6_Witness ==
    Returned /\ via = "exhausted" /\ Passes = max_iter /\ max_iter >= 2 /\ ~Flag

(***************************************************************************)
(* C7: with max_iter = 0 the call returns at once the flag false, an empty *)
(* trace and x0 as root, and f and df are never evaluated.                 *)
(***************************************************************************)
C7_ZeroIterations ==
    max_iter = 0 =>
        /\ evals = 0
        /\ pc \in {"for", "done"}
        /\ Returned => ret = <<x0, <<>>, FALSE>>

C7_Witness == max_iter = 0 /\ Returned /\ via = "exhausted"

(***************************************************************************)
(* C8: for f(x) = x^2 + 1, df(x) = 2x, x0 = 1, tol = 1e-6 and max_iter >= 1 *)
(* the call never reports convergence: the flag is false, and the trace    *)
(* holds max_iter records or the degenerate-derivative abort ended it.     *)
(***************************************************************************)
C8_NoFalseConvergence ==
    (/\ f_expr = FSquarePlus1
     /\ df_expr = <<Zero, Int2Rat(2)>>
     /\ x0 = Int2Rat(1)
     /\ tol = Rat(1, 1000000)
     /\ max_iter >= 1) =>
        /\ via # "converged"
        /\ Returned => (~Flag /\ (Len(Trace) = max_iter \/ AbortFired))

C8_Witness ==
    /\ f_expr = FSquarePlus1
    /\ df_expr = <<Zero, Int2Rat(2)>>
    /\ x0 = Int2Rat(1)
    /\ tol = Rat(1, 1000000)
    /\ max_iter = 3
    /\ Returned
    /\ AbortFired
    /\ Len(Trace) = 1

(***************************************************************************)
(* C9: with x_1 = x0 and x_{k+1} = x_k - f(x_k)/df(x_k), the k-th record   *)
(* of the trace is always (k, x_k, f(x_k), |x_{k+1} - x_k|), the current x *)
(* is x_{n+1} for a trace of n records, and so is the returned root.       *)
(***************************************************************************)
C9_TraceIsNewtonSequence ==
    LET n == Len(iteraciones)
    IN  /\ \A k \in 1 .. n :
              iteraciones[k] =
                  <<k, XSeq(k), F(XSeq(k)), Abs(Sub(XSeq(k + 1), XSeq(k)))>>
        /\ x = XSeq(n + 1)
        /\ Returned => (Trace = iteraciones /\ Root = XSeq(Len(Trace) + 1))

C9_Witness == Returned /\ Len(Trace) >= 3 /\ Root # x0

(***************************************************************************)
(* C10: convergence is declared on the step size alone, at the first pass  *)
(* whose step is below tol: every record but the last of a returned trace  *)
(* has error >= tol; a pass with step >= tol goes on to the next pass even *)
(* when |f(x)| < tol; a pass with step < tol returns the flag true         *)
(* whatever f(x) is.                                                       *)
(***************************************************************************)
C10_StepSizeDecides ==
    /\ [](Returned =>
            \A k \in 1 .. (Len(Trace) - 1) : ~Less(Trace[k][4], tol))
    /\ [][pc = "check" =>
            LET step == iteraciones[Len(iteraciones)][4]
            IN  IF Less(step, tol)
                THEN pc' = "done" /\ ret'[3] = TRUE
                ELSE pc' = "for" /\ ret' = <<>>]_vars

\* a pass whose residual is below tol and whose step is not
C10_Witness ==
    /\ pc = "check"
    /\ Less(Abs(f_x), tol)
    /\ ~Less(error, tol)
    /\ error = iteraciones[Len(iteraciones)][4]

\* a pass whose step is below tol and whose residual is not
C10_WitnessStepSmall ==
    /\ Returned
    /\ Flag
    /\ ~Less(Abs(f_x), tol)
    /\ Passes = max_iter

=============================================================================
